---- MODULE Spec2Model ----
(***************************************************************************)
(* A model of treetagger.py: the TreeTagger and TreeTaggerChunker adapters *)
(* (construction, tag, parse, parse_to_tree).                              *)
(*                                                                         *)
(* Text is modelled as a sequence of one-character strings, so that        *)
(* strip/split/re.sub/Tree.fromstring are computed character by character  *)
(* as Python computes them.                                                *)
(***************************************************************************)
EXTENDS Integers, Sequences, FiniteSets, TLC

VARIABLES
    environ,    \* os.environ: the value of TREETAGGER_HOME, or NoneVal when unset
    platform,   \* sys.platform
    fs,         \* the file system: [lib |-> listing of <root>/lib, bins |-> directories holding the binaries]
    adapter,    \* the adapter object: its class and its instance attributes
    call,       \* the last operation and its inputs
    outcome,    \* how the last operation ended: a returned value or a raised exception
    printed     \* what the last operation wrote with print(), in order

vars == <<environ, platform, fs, adapter, call, outcome, printed>>

(***************************************************************************)
(* Bounds of the model.                                                    *)
(***************************************************************************)
\* longest standard output, in characters, fed to tag
MaxOut == 5
\* most lines of chunker output fed to parse / parse_to_tree
MaxRecs == 4

(***************************************************************************)
(* Python values.                                                          *)
(***************************************************************************)
NoneVal == "<None>"

TAB == "\t"
NL == "\n"
SP == " "

\* the characters str.strip() removes and the regular expression class \s matches
Whitespace == {" ", "\t", "\n", "\r", "\f"}

\* the regular expression class [a-zA-Z]
Letters ==
    {"a","b","c","d","e","f","g","h","i","j","k","l","m",
     "n","o","p","q","r","s","t","u","v","w","x","y","z",
     "A","B","C","D","E","F","G","H","I","J","K","L","M",
     "N","O","P","Q","R","S","T","U","V","W","X","Y","Z"}

ReturnedNone == [kind |-> "return", none |-> TRUE, value |-> <<>>]
ReturnedValue(v) == [kind |-> "return", none |-> FALSE, value |-> v]
Raised(type, msg) == [kind |-> "raise", type |-> type, msg |-> msg]

(***************************************************************************)
(* Python string operations.                                               *)
(***************************************************************************)
RECURSIVE LStrip(_)
LStrip(s) ==
    IF s = <<>> THEN <<>>
    ELSE IF Head(s) \in Whitespace THEN LStrip(Tail(s)) ELSE s

RECURSIVE RStrip(_)
RStrip(s) ==
    IF s = <<>> THEN <<>>
    ELSE IF s[Len(s)] \in Whitespace THEN RStrip(SubSeq(s, 1, Len(s) - 1)) ELSE s

\* str.strip(): leading and trailing whitespace removed
Strip(s) == RStrip(LStrip(s))

\* str.split(sep) for a one-character separator: always at least one piece
RECURSIVE Split(_, _)
Split(s, sep) ==
    IF \A i \in 1..Len(s) : s[i] # sep THEN <<s>>
    ELSE LET i == CHOOSE k \in 1..Len(s) :
                      s[k] = sep /\ \A j \in 1..(k - 1) : s[j] # sep
         IN  <<SubSeq(s, 1, i - 1)>> \o Split(SubSeq(s, i + 1, Len(s)), sep)

\* sep.join(parts)
RECURSIVE Join(_, _)
Join(parts, sep) ==
    IF parts = <<>> THEN <<>>
    ELSE IF Len(parts) = 1 THEN parts[1]
    ELSE parts[1] \o sep \o Join(Tail(parts), sep)

\* s.startswith(p), s.endswith(p)
StartsWith(s, p) == Len(s) >= Len(p) /\ SubSeq(s, 1, Len(p)) = p
EndsWith(s, p) == Len(s) >= Len(p) /\ SubSeq(s, Len(s) - Len(p) + 1, Len(s)) = p

\* s[:-n]
DropLast(s, n) == IF Len(s) <= n THEN <<>> ELSE SubSeq(s, 1, Len(s) - n)

(***************************************************************************)
(* The file system and the environment seen by the constructors.           *)
(* One installation root, TtRoot, may hold a lib directory and binaries;   *)
(* OtherRoot is a directory that holds neither.  Paths are sequences of    *)
(* components; the roots are absolute and normalised, so                   *)
(* os.path.normpath and os.path.expanduser leave them as they are.         *)
(***************************************************************************)
TtRoot == "/opt/treetagger"
OtherRoot == "/tmp/empty"

PathJoin(root, sub) == <<root, sub>>

\* language identifiers and the data files of a lib directory, as text
LangEn == <<"e","n">>
LangDe == <<"d","e">>
LangEnChunker == <<"e","n","-","c","h","u","n","k","e","r">>
ExtPar == <<".","p","a","r">>
SufChunkerPar == <<"c","h","u","n","k","e","r",".","p","a","r">>
SufDashChunkerPar == <<"-">> \o SufChunkerPar
SufBat == <<".","b","a","t">>
PreTag == <<"t","a","g","-">>
PreTreeTagger == <<"t","r","e","e","-","t","a","g","g","e","r","-">>
PreChunk == <<"c","h","u","n","k","-">>
PreTaggerChunker == <<"t","a","g","g","e","r","-","c","h","u","n","k","e","r","-">>

PlatLinux == <<"l","i","n","u","x">>
PlatWin == <<"w","i","n","3","2">>
PrefixWin == <<"w","i","n">>

\* the files a lib directory may hold
LibFiles == {LangEn \o ExtPar, LangEn \o SufDashChunkerPar, LangDe \o SufDashChunkerPar}

\* the executables installed in a directory of binaries: those of English
InstalledBins ==
    {PreTreeTagger \o LangEn, PreTag \o LangEn \o SufBat,
     PreTaggerChunker \o LangEn, PreChunk \o LangEn \o SufBat}

\* the directories that may hold the installed executables
BinDirChoices ==
    { {}, {<<".">>}, {PathJoin(TtRoot, "cmd")},
      {PathJoin(TtRoot, "bin"), PathJoin(TtRoot, "bat")},
      {<<".">>, PathJoin(TtRoot, "cmd"), PathJoin(TtRoot, "bin"), PathJoin(TtRoot, "bat")} }

FileSystems ==
    [libdir : {TRUE}, lib : SUBSET LibFiles, bins : BinDirChoices]
        \cup [libdir : {FALSE}, lib : {{}}, bins : BinDirChoices]

\* os.listdir(path) restricted to regular files: fails when the directory is missing
ListDir(f, path) ==
    IF path = PathJoin(TtRoot, "lib") /\ f.libdir
    THEN [ok |-> TRUE, files |-> f.lib]
    ELSE [ok |-> FALSE, files |-> {}]

\* files(path, pattern) for a pattern "*<suffix>": the names fnmatch accepts
Files(listing, suffix) == {file \in listing : EndsWith(file, suffix)}

\* nltk.internals.find_binary(name, searchpath=...): the first search path that
\* holds the file; found = FALSE stands for its LookupError
RECURSIVE FindBinary(_, _, _)
FindBinary(f, name, searchpath) ==
    IF searchpath = <<>> THEN [found |-> FALSE, path |-> <<>>]
    ELSE IF Head(searchpath) \in f.bins /\ name \in InstalledBins
         THEN [found |-> TRUE, path |-> <<Head(searchpath), name>>]
         ELSE FindBinary(f, name, Tail(searchpath))

\* "if x:" for a path argument
Truthy(p) == p # NoneVal /\ p # ""

NoObject == [class |-> "none", attrs |-> <<>>]
NewObject(class, attrs) == [class |-> class, attrs |-> attrs]
HasAttr(obj, name) == name \in DOMAIN obj.attrs

(***************************************************************************)
(* TreeTagger.get_installed_lang and TreeTagger.__init__                   *)
(***************************************************************************)
\* the tagger's catalog without its filter on "chunker.par"
TaggerCatalogUnfiltered(listing) ==
    {DropLast(file, 4) : file \in Files(listing, ExtPar)}

\* the catalog comprehension of the plain tagger
TaggerCatalog(listing) ==
    {DropLast(file, 4) : file \in {g \in Files(listing, ExtPar) : ~EndsWith(g, SufChunkerPar)}}

TaggerGetInstalledLang(env, selfPath, f) ==
    IF env # NoneVal
    THEN LET d == ListDir(f, PathJoin(env, "lib"))
         IN  [ok |-> d.ok, langs |-> TaggerCatalog(d.files)]
    ELSE IF Truthy(selfPath)
    THEN LET d == ListDir(f, PathJoin(selfPath, "lib"))
         IN  [ok |-> d.ok, langs |-> TaggerCatalog(d.files)]
    ELSE [ok |-> TRUE, langs |-> {}]

\* the result of a constructor: how it ended, the object as far as it was
\* initialised, and what it printed
InitResult(out, obj, pr) == [outcome |-> out, self |-> obj, printed |-> pr]

TreeTaggerInit(path_to_treetagger, language, abbreviation_list, env, plat, f) ==
    LET selfPath == IF Truthy(path_to_treetagger) THEN path_to_treetagger ELSE NoneVal
        win == StartsWith(plat, PrefixWin)
        a1 == "_path_to_treetagger" :> selfPath
        home == IF env # NoneVal THEN env ELSE selfPath
        treetagger_paths == <<<<".">>, PathJoin(home, IF win THEN "bin" ELSE "cmd")>>
        a2 == a1 @@ ("_abbr_list" :> abbreviation_list)
        installed == TaggerGetInstalledLang(env, selfPath, f)
        treetagger_bin_name ==
            IF win THEN PreTag \o language \o SufBat ELSE PreTreeTagger \o language
        bin == FindBinary(f, treetagger_bin_name, treetagger_paths)
    IN  IF env = NoneVal /\ ~Truthy(selfPath)
        THEN InitResult(Raised("LookupError", "Set 'TREETAGGER_HOME' or use path_to_treetagger!"),
                        NoObject, <<>>)
        ELSE IF ~installed.ok
        THEN InitResult(Raised("FileNotFoundError", "lib"), NoObject, <<>>)
        ELSE IF language \notin installed.langs
        THEN InitResult(Raised("LookupError", "Language not installed!"), NoObject, <<>>)
        ELSE IF bin.found
        THEN InitResult(ReturnedNone,
                        NewObject("TreeTagger", a2 @@ ("_treetagger_bin" :> bin.path)), <<>>)
        ELSE InitResult(ReturnedNone, NewObject("TreeTagger", a2),
                        <<"NLTK was unable to find the TreeTagger bin!">>)

(***************************************************************************)
(* TreeTaggerChunker.get_installed_lang and TreeTaggerChunker.__init__     *)
(***************************************************************************)
\* the catalog comprehension of the chunker
ChunkerCatalog(listing) ==
    LET lang_files == {DropLast(file, 4) : file \in Files(listing, ExtPar)}
        lang_chunk_files == {DropLast(file, 12) : file \in Files(listing, SufDashChunkerPar)}
    IN  {item \in lang_chunk_files : item \in lang_files}

ChunkerGetInstalledLang(env, selfPath, f) ==
    IF env # NoneVal
    THEN LET d == ListDir(f, PathJoin(env, "lib"))
         IN  [ok |-> d.ok, langs |-> ChunkerCatalog(d.files)]
    ELSE IF Truthy(selfPath)
    THEN LET d == ListDir(f, PathJoin(selfPath, "lib"))
         IN  [ok |-> d.ok, langs |-> ChunkerCatalog(d.files)]
    ELSE [ok |-> TRUE, langs |-> {}]

TreeTaggerChunkerInit(path_to_treetagger, language, abbreviation_list, env, plat, f) ==
    LET selfPath == IF Truthy(path_to_treetagger) THEN path_to_treetagger ELSE NoneVal
        win == StartsWith(plat, PrefixWin)
        a1 == "_path_to_treetagger" :> selfPath
        home == IF env # NoneVal THEN env ELSE selfPath
        treetagger_paths == <<<<".">>, PathJoin(home, IF win THEN "bat" ELSE "cmd")>>
        a2 == a1 @@ ("_abbr_list" :> abbreviation_list)
        installed == ChunkerGetInstalledLang(env, selfPath, f)
        treetagger_chunker_bin_name ==
            IF win THEN PreChunk \o language \o SufBat ELSE PreTaggerChunker \o language
        bin == FindBinary(f, treetagger_chunker_bin_name, treetagger_paths)
    IN  IF env = NoneVal /\ ~Truthy(selfPath)
        THEN InitResult(Raised("LookupError", "Set 'TREETAGGER_HOME' or use path_to_treetagger!"),
                        NoObject, <<>>)
        ELSE IF ~installed.ok
        THEN InitResult(Raised("FileNotFoundError", "lib"), NoObject, <<>>)
        ELSE IF language \notin installed.langs
        THEN InitResult(Raised("LookupError", "Language not installed!"), NoObject, <<>>)
        ELSE IF bin.found
        THEN InitResult(ReturnedNone,
                        NewObject("TreeTaggerChunker", a2 @@ ("_treetagger_chunker_bin" :> bin.path)),
                        <<>>)
        ELSE InitResult(ReturnedNone, NewObject("TreeTaggerChunker", a2),
                        <<"NLTK was unable to find the TreeTagger Chunker bin!">>)

(***************************************************************************)
(* The external process: p.communicate() answers with (stdout, stderr) and *)
(* p.returncode.  Standard output is ASCII text, which bytes.decode        *)
(* turns into the same characters.                                         *)
(***************************************************************************)
ProcResult(rc, out, err) == [returncode |-> rc, stdout |-> out, stderr |-> err]

\* no process was started: the method failed before its Popen
NotStarted == [started |-> FALSE]

\* the answers a method may get: none when self lacks the attribute that
\* Popen's argument reads
Answers(self, binAttr, procs) ==
    IF binAttr \in DOMAIN self.attrs THEN procs ELSE {NotStarted}

\* how a method ended and what it printed
CallResult(out, pr) == [outcome |-> out, printed |-> pr]

\* for tagged_word in output.strip().split('\n'): append(tagged_word.split('\t'))
SplitRecords(output) ==
    LET lines == Split(Strip(output), NL)
    IN  [i \in 1..Len(lines) |-> Split(lines[i], TAB)]

(***************************************************************************)
(* TreeTagger.tag                                                          *)
(***************************************************************************)
\* tag without its check of the return code
TagRunUnchecked(self, proc) ==
    IF ~HasAttr(self, "_treetagger_bin")
    THEN CallResult(Raised("AttributeError", "_treetagger_bin"), <<>>)
    ELSE CallResult(ReturnedValue(SplitRecords(proc.stdout)), <<>>)

TagRun(self, proc) ==
    IF ~HasAttr(self, "_treetagger_bin")
    THEN CallResult(Raised("AttributeError", "_treetagger_bin"), <<>>)
    ELSE IF proc.returncode # 0
    THEN CallResult(Raised("OSError", "TreeTagger command failed!"), <<proc.stderr>>)
    ELSE CallResult(ReturnedValue(SplitRecords(proc.stdout)), <<>>)

(***************************************************************************)
(* TreeTaggerChunker.parse                                                 *)
(***************************************************************************)
ParseRun(self, proc) ==
    IF ~HasAttr(self, "_treetagger_chunker_bin")
    THEN CallResult(Raised("AttributeError", "_treetagger_chunker_bin"), <<>>)
    ELSE IF proc.returncode # 0
    THEN CallResult(Raised("OSError", "TreeTaggerChunker command failed!"), <<proc.stderr>>)
    ELSE CallResult(ReturnedValue(SplitRecords(proc.stdout)), <<>>)

(***************************************************************************)
(* The regular expressions of parse_to_tree.                               *)
(***************************************************************************)
\* the length of the longest run of letters at the start of s
RECURSIVE LetterRun(_)
LetterRun(s) ==
    IF s # <<>> /\ Head(s) \in Letters THEN 1 + LetterRun(Tail(s)) ELSE 0

\* re.sub('</[a-zA-Z]*>', ')', s)
RECURSIVE SubClose(_)
SubClose(s) ==
    IF s = <<>> THEN <<>>
    ELSE IF Len(s) >= 3 /\ s[1] = "<" /\ s[2] = "/"
         THEN LET n == LetterRun(SubSeq(s, 3, Len(s)))
              IN  IF Len(s) >= 3 + n /\ s[3 + n] = ">"
                  THEN <<")">> \o SubClose(SubSeq(s, 4 + n, Len(s)))
                  ELSE <<Head(s)>> \o SubClose(Tail(s))
         ELSE <<Head(s)>> \o SubClose(Tail(s))

\* re.sub('<', ' (', s)
RECURSIVE SubOpen(_)
SubOpen(s) ==
    IF s = <<>> THEN <<>>
    ELSE (IF Head(s) = "<" THEN <<" ", "(">> ELSE <<Head(s)>>) \o SubOpen(Tail(s))

\* re.sub('>', '', s)
SubGt(s) == SelectSeq(s, LAMBDA c : c # ">")

(***************************************************************************)
(* nltk.tree.Tree.fromstring with its default brackets and patterns.       *)
(* A Tree is [label, children]; a child is a Tree or a leaf string,        *)
(* [leaf].                                                                 *)
(***************************************************************************)
MkTree(label, children) == [label |-> label, children |-> children]
MkLeaf(text) == [leaf |-> text]

NodeChar(c) == c \notin Whitespace /\ c # "(" /\ c # ")"

\* the length of the longest run of whitespace at the start of s
RECURSIVE SpaceRun(_)
SpaceRun(s) ==
    IF s # <<>> /\ Head(s) \in Whitespace THEN 1 + SpaceRun(Tail(s)) ELSE 0

\* the length of the longest run of [^\s()] at the start of s
RECURSIVE NodeRun(_)
NodeRun(s) ==
    IF s # <<>> /\ NodeChar(Head(s)) THEN 1 + NodeRun(Tail(s)) ELSE 0

\* token_re.finditer(s): the matches of  \(\s*([^\s()]+)?|\)|([^\s()]+)
\* an opening token carries its label (token[1:].lstrip())
RECURSIVE Tokens(_)
Tokens(s) ==
    IF s = <<>> THEN <<>>
    ELSE IF Head(s) = "("
    THEN LET ws == SpaceRun(Tail(s))
             n == NodeRun(SubSeq(s, 2 + ws, Len(s)))
         IN  <<[type |-> "open", text |-> SubSeq(s, 2 + ws, 1 + ws + n)]>>
                 \o Tokens(SubSeq(s, 2 + ws + n, Len(s)))
    ELSE IF Head(s) = ")"
    THEN <<[type |-> "close", text |-> <<>>]>> \o Tokens(Tail(s))
    ELSE IF NodeChar(Head(s))
    THEN LET n == NodeRun(s)
         IN  <<[type |-> "leaf", text |-> SubSeq(s, 1, n)]>> \o Tokens(SubSeq(s, n + 1, Len(s)))
    ELSE Tokens(Tail(s))

\* the walk over the tokens with a stack of (label, children); the bottom
\* entry of the stack is (None, []).  ok = FALSE stands for _parse_error's ValueError
RECURSIVE Walk(_, _)
Walk(toks, stack) ==
    IF toks = <<>>
    THEN IF Len(stack) > 1 \/ Len(stack[1].children) = 0
         THEN [ok |-> FALSE, tree |-> <<>>]
         ELSE [ok |-> TRUE, tree |-> stack[1].children[1]]
    ELSE LET t == Head(toks)
             top == stack[Len(stack)]
         IN  IF t.type = "open"
             THEN IF Len(stack) = 1 /\ Len(stack[1].children) > 0
                  THEN [ok |-> FALSE, tree |-> <<>>]
                  ELSE Walk(Tail(toks), Append(stack, MkTree(t.text, <<>>)))
             ELSE IF t.type = "close"
             THEN IF Len(stack) = 1
                  THEN [ok |-> FALSE, tree |-> <<>>]
                  ELSE LET below == stack[Len(stack) - 1]
                       IN  Walk(Tail(toks),
                                Append(SubSeq(stack, 1, Len(stack) - 2),
                                       MkTree(below.label, Append(below.children, top))))
             ELSE IF Len(stack) = 1
                  THEN [ok |-> FALSE, tree |-> <<>>]
                  ELSE Walk(Tail(toks),
                            Append(SubSeq(stack, 1, Len(stack) - 1),
                                   MkTree(top.label, Append(top.children, MkLeaf(t.text)))))

TreeFromString(s) == Walk(Tokens(s), <<MkTree(<<"None">>, <<>>)>>)

(***************************************************************************)
(* TreeTaggerChunker.parse_to_tree                                         *)
(***************************************************************************)
TagSENT == <<"S","E","N","T">>
TagDollarDot == <<"$",".">>
TagFS == <<"F","S">>

\* item[1] == 'SENT' or item[1] == '$.' or item[1] == 'FS'
IsTerminalTag(tag) == tag = TagSENT \/ tag = TagDollarDot \/ tag = TagFS

\* '(S ' + res + ')'
WrapS(res) == <<"(","S"," ">> \o res \o <<")">>

\* what a one-field record adds to res
MarkerText(field) ==
    LET erg == SubClose(field)
    IN  IF erg = <<")">> THEN erg ELSE SubGt(SubOpen(field))

\* what a three-field record adds to res: ' (' + item[0] + ' ' + item[1] + ')'
LeafText(item) == <<" ","(">> \o item[1] \o <<" ">> \o item[2] \o <<")">>

\* one turn of the loop body: st = [resar, res] before the record at idx
LoopBody(tc_sentences, idx, st) ==
    LET item == tc_sentences[idx]
        res1 == IF Len(item) = 1 THEN st.res \o MarkerText(item[1]) ELSE st.res
        res2 == IF Len(item) = 3 THEN res1 \o LeafText(item) ELSE res1
        st2 == IF Len(item) = 3 /\ IsTerminalTag(item[2])
               THEN [resar |-> Append(st.resar, WrapS(res2)), res |-> <<>>]
               ELSE [resar |-> st.resar, res |-> res2]
    IN  IF Len(tc_sentences) = idx /\ Len(st2.res) > 1 /\ SubSeq(st2.res, 1, 2) # <<"(","S">>
        THEN [resar |-> Append(st2.resar, WrapS(st2.res)), res |-> <<>>]
        ELSE st2

\* the for loop over tc_sentences, from the record at idx on
RECURSIVE Loop(_, _, _)
Loop(tc_sentences, idx, st) ==
    IF idx > Len(tc_sentences) THEN st
    ELSE Loop(tc_sentences, idx + 1, LoopBody(tc_sentences, idx, st))

\* the completed sentences after the loop
Resar(tc_sentences) == Loop(tc_sentences, 1, [resar |-> <<>>, res |-> <<>>]).resar

\* '(ROOT ' + ' '.join(resar) + ')' or resar[0]
Erg(resar) ==
    IF Len(resar) > 1
    THEN <<"(","R","O","O","T"," ">> \o Join(resar, <<" ">>) \o <<")">>
    ELSE resar[1]

ParseToTreeRun(self, proc) ==
    LET parsed == ParseRun(self, proc)
        resar == Resar(parsed.outcome.value)
        t == TreeFromString(Erg(resar))
    IN  IF parsed.outcome.kind = "raise" THEN parsed
        ELSE IF Len(resar) = 0
        THEN CallResult(Raised("IndexError", "list index out of range"), <<>>)
        ELSE IF t.ok
        THEN CallResult(ReturnedValue(t.tree), <<>>)
        ELSE CallResult(ReturnedNone,
                        <<<<"Something goes wrong. Please check the raw data:\n">>, Erg(resar)>>)

(***************************************************************************)
(* The inputs of the model.                                                *)
(***************************************************************************)
\* constructor arguments and environment
HomeValues == {NoneVal, TtRoot, OtherRoot}
PathArgs == {NoneVal, "", TtRoot, OtherRoot}
Languages == {LangEn, LangDe, LangEnChunker}
AbbrArgs == {NoneVal, "abbreviations.txt"}
Platforms == {PlatLinux, PlatWin}

\* all texts of at most n characters over an alphabet
TextsUpTo(alphabet, n) == UNION {[1..k -> alphabet] : k \in 0..n}

\* what the tagger process may answer
TagAlphabet == {"a", TAB, NL, SP}
TagFailureOutputs == {<<>>, <<"a", TAB, "a", TAB, "a", NL>>}
TagProcs ==
    {ProcResult(0, o, "\treading parameters ...") : o \in TextsUpTo(TagAlphabet, MaxOut)}
        \cup {ProcResult(rc, o, e) : rc \in {1, 2}, o \in TagFailureOutputs,
                                     e \in {"", "ERROR: Can't open for reading"}}

\* the lines of chunker output: markers, tagged tokens, and malformed lines
LineOpenN == <<"<","N","C",">">>
LineCloseN == <<"<","/","N","C",">">>
LineCloseV == <<"<","/","V","C",">">>
LineWord == <<"a", TAB, "D","T", TAB, "l">>
LineSent == <<"?", TAB>> \o TagSENT \o <<TAB, "l">>
LineDollarDot == <<".", TAB>> \o TagDollarDot \o <<TAB, "l">>
LineFS == <<"!", TAB>> \o TagFS \o <<TAB, "l">>
LineParen == <<"(", TAB, "(", TAB, "l">>
LineTwoFields == <<"a", TAB, "D","T">>
ChunkLines ==
    {LineOpenN, LineCloseN, LineCloseV, LineWord, LineSent, LineDollarDot, LineFS,
     LineParen, LineTwoFields}

\* the text of a sequence of lines, each ended by a newline
RECURSIVE Unlines(_)
Unlines(lines) ==
    IF lines = <<>> THEN <<>> ELSE Head(lines) \o <<NL>> \o Unlines(Tail(lines))

ChunkOutputs == {Unlines(ls) : ls \in TextsUpTo(ChunkLines, MaxRecs)}
ChunkFailureOutputs == {<<>>, Unlines(<<LineOpenN, LineWord>>)}
ChunkProcs ==
    {ProcResult(0, o, "\treading parameters ...") : o \in ChunkOutputs}
        \cup {ProcResult(rc, o, e) : rc \in {1, 2}, o \in ChunkFailureOutputs,
                                     e \in {"", "ERROR: Can't open for reading"}}

(***************************************************************************)
(* Construction: SpecNew.                                                  *)
(***************************************************************************)
InitNew ==
    /\ environ \in HomeValues
    /\ platform \in Platforms
    /\ fs \in FileSystems
    /\ adapter = NoObject
    /\ call = [op |-> "none"]
    /\ outcome = [kind |-> "none"]
    /\ printed = <<>>

\* one constructor call is looked at at a time
NewTreeTagger ==
    /\ call.op = "none"
    /\ \E path \in PathArgs, language \in Languages, abbr \in AbbrArgs :
        LET r == TreeTaggerInit(path, language, abbr, environ, platform, fs)
        IN  /\ call' = [op |-> "TreeTagger", path_to_treetagger |-> path,
                        language |-> language, abbreviation_list |-> abbr]
            /\ adapter' = r.self
            /\ outcome' = r.outcome
            /\ printed' = r.printed
    /\ UNCHANGED <<environ, platform, fs>>

NewTreeTaggerChunker ==
    /\ call.op = "none"
    /\ \E path \in PathArgs, language \in Languages, abbr \in AbbrArgs :
        LET r == TreeTaggerChunkerInit(path, language, abbr, environ, platform, fs)
        IN  /\ call' = [op |-> "TreeTaggerChunker", path_to_treetagger |-> path,
                        language |-> language, abbreviation_list |-> abbr]
            /\ adapter' = r.self
            /\ outcome' = r.outcome
            /\ printed' = r.printed
    /\ UNCHANGED <<environ, platform, fs>>

\* the caller drops the object (or has caught the exception)
Discard ==
    /\ call.op # "none"
    /\ call' = [op |-> "none"]
    /\ adapter' = NoObject
    /\ outcome' = [kind |-> "none"]
    /\ printed' = <<>>
    /\ UNCHANGED <<environ, platform, fs>>

NextNew == NewTreeTagger \/ NewTreeTaggerChunker \/ Discard

SpecNew == InitNew /\ [][NextNew]_vars

(***************************************************************************)
(* Calls on a constructed adapter: Spec.                                   *)
(***************************************************************************)
FsInstalled ==
    [libdir |-> TRUE, lib |-> {LangEn \o ExtPar, LangEn \o SufDashChunkerPar},
     bins |-> {PathJoin(TtRoot, "cmd")}]
FsNoBinaries == [FsInstalled EXCEPT !.bins = {}]

\* the constructions the calls start from: (file system, class, abbreviation list)
Constructions ==
    { <<FsInstalled, "TreeTagger", NoneVal>>,
      <<FsInstalled, "TreeTagger", "abbreviations.txt">>,
      <<FsNoBinaries, "TreeTagger", NoneVal>>,
      <<FsInstalled, "TreeTaggerChunker", NoneVal>>,
      <<FsNoBinaries, "TreeTaggerChunker", NoneVal>> }

Init ==
    \E c \in Constructions :
        LET r == IF c[2] = "TreeTagger"
                 THEN TreeTaggerInit(NoneVal, LangEn, c[3], TtRoot, PlatLinux, c[1])
                 ELSE TreeTaggerChunkerInit(NoneVal, LangEn, c[3], TtRoot, PlatLinux, c[1])
        IN  /\ environ = TtRoot
            /\ platform = PlatLinux
            /\ fs = c[1]
            /\ adapter = r.self
            /\ call = [op |-> c[2]]
            /\ outcome = r.outcome
            /\ printed = r.printed

Methods == {"tag", "parse", "parse_to_tree"}

\* the calls on one adapter follow each other: a call starts when the one
\* before it has ended
Tag ==
    /\ call.op \notin Methods
    /\ adapter.class = "TreeTagger"
    /\ \E proc \in Answers(adapter, "_treetagger_bin", TagProcs) :
        LET r == TagRun(adapter, proc)
        IN  /\ call' = [op |-> "tag", proc |-> proc]
            /\ outcome' = r.outcome
            /\ printed' = r.printed
    /\ UNCHANGED <<environ, platform, fs, adapter>>

Parse ==
    /\ call.op \notin Methods
    /\ adapter.class = "TreeTaggerChunker"
    /\ \E proc \in Answers(adapter, "_treetagger_chunker_bin", ChunkProcs) :
        LET r == ParseRun(adapter, proc)
        IN  /\ call' = [op |-> "parse", proc |-> proc]
            /\ outcome' = r.outcome
            /\ printed' = r.printed
    /\ UNCHANGED <<environ, platform, fs, adapter>>

ParseToTree ==
    /\ call.op \notin Methods
    /\ adapter.class = "TreeTaggerChunker"
    /\ \E proc \in Answers(adapter, "_treetagger_chunker_bin", ChunkProcs) :
        LET r == ParseToTreeRun(adapter, proc)
        IN  /\ call' = [op |-> "parse_to_tree", proc |-> proc]
            /\ outcome' = r.outcome
            /\ printed' = r.printed
    /\ UNCHANGED <<environ, platform, fs, adapter>>

\* the caller has taken the result (or caught the exception) of the last call
Return ==
    /\ call.op \in Methods
    /\ call' = [op |-> "idle"]
    /\ outcome' = [kind |-> "none"]
    /\ printed' = <<>>
    /\ UNCHANGED <<environ, platform, fs, adapter>>

Next == Tag \/ Parse \/ ParseToTree \/ Return

Spec == Init /\ [][Next]_vars

(***************************************************************************)
(* What the properties speak of.                                           *)
(***************************************************************************)
\* the last call ran the external process on an adapter that has its binary
RanProcess(op, binAttr) ==
    /\ call.op = op
    /\ HasAttr(adapter, binAttr)

TagRan == RanProcess("tag", "_treetagger_bin")
ParseRan == RanProcess("parse", "_treetagger_chunker_bin")
ParseToTreeRan == RanProcess("parse_to_tree", "_treetagger_chunker_bin")

\* the lines of a response: the text split on newline, without the one empty
\* segment that follows a final newline
ResponseLines(output) ==
    LET parts == Split(output, NL)
    IN  IF parts[Len(parts)] = <<>> THEN SubSeq(parts, 1, Len(parts) - 1) ELSE parts

\* each line split on the tab character
LiteralRecords(output) ==
    LET lines == ResponseLines(output)
    IN  [i \in 1..Len(lines) |-> Split(lines[i], TAB)]

\* the record stream parse_to_tree works on: what parse returns
Stream == SplitRecords(call.proc.stdout)

AllLetters(s) == \A i \in 1..Len(s) : s[i] \in Letters

\* <LABEL> and </LABEL> for a label of one or more letters
IsOpenMarker(rec) ==
    /\ Len(rec) = 1
    /\ Len(rec[1]) >= 3
    /\ rec[1][1] = "<"
    /\ rec[1][Len(rec[1])] = ">"
    /\ AllLetters(SubSeq(rec[1], 2, Len(rec[1]) - 1))

IsCloseMarker(rec) ==
    /\ Len(rec) = 1
    /\ Len(rec[1]) >= 4
    /\ rec[1][1] = "<"
    /\ rec[1][2] = "/"
    /\ rec[1][Len(rec[1])] = ">"
    /\ AllLetters(SubSeq(rec[1], 3, Len(rec[1]) - 1))

OpenLabel(rec) == SubSeq(rec[1], 2, Len(rec[1]) - 1)
CloseLabel(rec) == SubSeq(rec[1], 3, Len(rec[1]) - 1)

IsToken(rec) == Len(rec) = 3
IsTerminal(rec) == IsToken(rec) /\ rec[2] \in {TagSENT, TagDollarDot, TagFS}

\* the markers of recs nest, every close matching the innermost open by label;
\* open holds the labels open so far.  With perSentence, a sentence-terminal
\* token must find nothing open.
RECURSIVE Nested(_, _, _)
Nested(recs, open, perSentence) ==
    IF recs = <<>> THEN open = <<>>
    ELSE LET r == Head(recs)
         IN  IF IsOpenMarker(r)
             THEN Nested(Tail(recs), Append(open, OpenLabel(r)), perSentence)
             ELSE IF IsCloseMarker(r)
             THEN /\ open # <<>>
                  /\ open[Len(open)] = CloseLabel(r)
                  /\ Nested(Tail(recs), SubSeq(open, 1, Len(open) - 1), perSentence)
             ELSE IF perSentence /\ IsTerminal(r)
             THEN open = <<>> /\ Nested(Tail(recs), <<>>, perSentence)
             ELSE Nested(Tail(recs), open, perSentence)

\* the number of open markers left without a close at the end of the stream
RECURSIVE OpenAtEnd(_, _)
OpenAtEnd(recs, depth) ==
    IF recs = <<>> THEN depth
    ELSE IF IsOpenMarker(Head(recs)) THEN OpenAtEnd(Tail(recs), depth + 1)
    ELSE IF IsCloseMarker(Head(recs)) /\ depth > 0 THEN OpenAtEnd(Tail(recs), depth - 1)
    ELSE OpenAtEnd(Tail(recs), depth)

\* a stream of properly nested markers and 3-field records whose only
\* sentence-terminal tag is on the last record
OneSentenceStream(recs) ==
    /\ recs # <<>>
    /\ \A i \in 1..Len(recs) :
          IsOpenMarker(recs[i]) \/ IsCloseMarker(recs[i]) \/ IsToken(recs[i])
    /\ Nested(recs, <<>>, FALSE)
    /\ \A i \in 1..Len(recs) : IsTerminal(recs[i]) <=> i = Len(recs)

\* the tree that mirrors the nesting of the markers: stack holds the nodes
\* open so far, the S node at the bottom
RECURSIVE Mirror(_, _)
Mirror(recs, stack) ==
    IF recs = <<>> THEN stack[1]
    ELSE LET r == Head(recs)
             top == stack[Len(stack)]
         IN  IF IsOpenMarker(r)
             THEN Mirror(Tail(recs), Append(stack, MkTree(OpenLabel(r), <<>>)))
             ELSE IF IsCloseMarker(r)
             THEN LET below == stack[Len(stack) - 1]
                  IN  Mirror(Tail(recs),
                             Append(SubSeq(stack, 1, Len(stack) - 2),
                                    MkTree(below.label, Append(below.children, top))))
             ELSE Mirror(Tail(recs),
                         Append(SubSeq(stack, 1, Len(stack) - 1),
                                MkTree(top.label,
                                       Append(top.children, MkTree(r[1], <<MkLeaf(r[2])>>)))))

MirrorTree(recs) == Mirror(recs, <<MkTree(<<"S">>, <<>>)>>)

ReturnedTree == outcome.kind = "return" /\ ~outcome.none

\* a field that Tree.fromstring reads as one node: not empty, no whitespace,
\* no parenthesis
PlainField(f) == f # <<>> /\ \A i \in 1..Len(f) : NodeChar(f[i])
PlainTokens(recs) ==
    \A i \in 1..Len(recs) : IsToken(recs[i]) => PlainField(recs[i][1]) /\ PlainField(recs[i][2])

(***************************************************************************)
(* C1                                                                      *)
(***************************************************************************)
\* C1: for every stream of properly nested markers and 3-field records whose
\* only sentence-terminal tag is on the last record, parse_to_tree returns
\* the one S tree that mirrors the marker nesting, with (token, tag) leaves
\* and no lemma (no ROOT wrapper).
C1_TreeMirrorsNesting ==
    (ParseToTreeRan /\ call.proc.returncode = 0 /\ OneSentenceStream(Stream))
        => outcome = ReturnedValue(MirrorTree(Stream))

\* C1, where it does hold: the same, for tokens and tags that hold no
\* whitespace and no parenthesis.
C1_PlainTokensMirrorNesting ==
    (ParseToTreeRan /\ call.proc.returncode = 0 /\ OneSentenceStream(Stream)
        /\ PlainTokens(Stream))
        => outcome = ReturnedValue(MirrorTree(Stream))

\* a chunk with a word in it, then the terminal token: the tree is returned
C1_PlainWitness ==
    /\ ParseToTreeRan
    /\ call.proc.stdout = Unlines(<<LineOpenN, LineWord, LineCloseN, LineSent>>)
    /\ outcome = ReturnedValue(MirrorTree(Stream))

(***************************************************************************)
(* C2                                                                      *)
(***************************************************************************)
\* C2: parse_to_tree wraps its result in ROOT if and only if more than one
\* sentence was completed: with k >= 2 completed sentences the result is one
\* ROOT node with exactly k S children, in stream order; with exactly one it
\* is that S tree itself.
C2_RootIffSeveralSentences ==
    (ParseToTreeRan /\ call.proc.returncode = 0 /\ Len(Resar(Stream)) >= 1)
        => LET resar == Resar(Stream)
               k == Len(resar)
           IN  /\ ReturnedTree
               /\ k = 1 => /\ outcome.value = TreeFromString(resar[1]).tree
                           /\ outcome.value.label = <<"S">>
               /\ k >= 2 => /\ outcome.value.label = <<"R","O","O","T">>
                            /\ Len(outcome.value.children) = k
                            /\ \A i \in 1..k :
                                  /\ TreeFromString(resar[i]).ok
                                  /\ outcome.value.children[i] = TreeFromString(resar[i]).tree
                                  /\ outcome.value.children[i].label = <<"S">>

(***************************************************************************)
(* C3                                                                      *)
(***************************************************************************)
\* C3: when an open marker has no matching close before the end of the
\* stream, parse_to_tree raises a tree-reconstruction error (the ValueError
\* of Tree.fromstring); it never ends normally with a tree or with None.
C3_UnbalancedRaises ==
    (ParseToTreeRan /\ call.proc.returncode = 0 /\ OpenAtEnd(Stream, 0) > 0)
        => outcome.kind = "raise" /\ outcome.type = "ValueError"

(***************************************************************************)
(* C4                                                                      *)
(***************************************************************************)
\* C4: when a line of the tagger's response does not split on tab into
\* exactly 3 fields, tag raises and returns no annotation sequence; no record
\* of another arity is ever in a returned sequence.
C4_MalformedLineRaises ==
    (TagRan /\ call.proc.returncode = 0)
        => /\ (\E i \in 1..Len(LiteralRecords(call.proc.stdout)) :
                  Len(LiteralRecords(call.proc.stdout)[i]) # 3)
                => outcome.kind = "raise"
           /\ ReturnedTree
                => \A i \in 1..Len(outcome.value) : Len(outcome.value[i]) = 3

(***************************************************************************)
(* C5                                                                      *)
(***************************************************************************)
\* C5: for every successful response, tag returns one record per response
\* line, in line order, each the literal line split on tab; only the one
\* empty segment after the final newline is dropped, and an empty response
\* gives the empty sequence.
C5_RecordsAreLiteralLines ==
    (TagRan /\ call.proc.returncode = 0)
        => outcome = ReturnedValue(LiteralRecords(call.proc.stdout))

(***************************************************************************)
(* C6                                                                      *)
(***************************************************************************)
\* the last call was tag, parse or parse_to_tree and its process exited non-zero
ProcessFailed ==
    /\ TagRan \/ ParseRan \/ ParseToTreeRan
    /\ call.proc.returncode # 0

FailureMessage ==
    IF call.op = "tag" THEN "TreeTagger command failed!"
    ELSE "TreeTaggerChunker command failed!"

Constructors == {"TreeTagger", "TreeTaggerChunker"}

BinAttr == IF call.op = "TreeTagger" THEN "_treetagger_bin" ELSE "_treetagger_chunker_bin"

\* C7: a constructor that returns has resolved its executable: when the
\* binary is on none of the search paths the constructor raises, so every
\* adapter that was constructed holds the path of its binary.
C7_ConstructedHasBinary ==
    (call.op \in Constructors /\ outcome.kind = "return")
        => HasAttr(adapter, BinAttr)

(***************************************************************************)
(* C8                                                                      *)
(***************************************************************************)
ConfigMessage == "Set 'TREETAGGER_HOME' or use path_to_treetagger!"
LanguageMessage == "Language not installed!"

\* the installation root the constructor was given: the environment variable
\* first, the argument otherwise
GivenHome == IF environ # NoneVal THEN environ ELSE call.path_to_treetagger

\* the lib directory of the root that was given is there and was listed
CatalogScanned ==
    /\ environ # NoneVal \/ Truthy(call.path_to_treetagger)
    /\ GivenHome = TtRoot
    /\ fs.libdir

\* the data files of language lang
TaggerData(lang) == lang \o ExtPar
ChunkerData(lang) == lang \o SufDashChunkerPar

\* C8: a constructor fails with the configuration error when neither
\* TREETAGGER_HOME nor a path is given, and with the language error when the
\* data file of the language is not in the scanned lib directory; the
\* tagger's catalog leaves out the chunker's data files (a language named by
\* one is refused), and the chunker's catalog holds a language only when both
\* its tagger data file and its chunker data file are there.
C8_ResolveErrorsAndCatalogs ==
    call.op \in Constructors
        => /\ (environ = NoneVal /\ call.path_to_treetagger = NoneVal)
                => outcome = Raised("LookupError", ConfigMessage)
           /\ (CatalogScanned /\ TaggerData(call.language) \notin fs.lib)
                => outcome = Raised("LookupError", LanguageMessage)
           /\ (CatalogScanned /\ call.op = "TreeTaggerChunker"
                    /\ ChunkerData(call.language) \notin fs.lib)
                => outcome = Raised("LookupError", LanguageMessage)
           /\ (CatalogScanned /\ call.op = "TreeTagger"
                    /\ EndsWith(TaggerData(call.language), SufDashChunkerPar))
                => outcome = Raised("LookupError", LanguageMessage)
           /\ (call.op = "TreeTagger" /\ outcome.kind = "return")
                => /\ TaggerData(call.language) \in fs.lib
                   /\ ~EndsWith(TaggerData(call.language), SufDashChunkerPar)
           /\ (call.op = "TreeTaggerChunker" /\ outcome.kind = "return")
                => /\ TaggerData(call.language) \in fs.lib
                   /\ ChunkerData(call.language) \in fs.lib

\* the tagger asked for the language "en-chunker" while en-chunker.par is in
\* the lib directory: refused
C8_Witness ==
    /\ call.op = "TreeTagger"
    /\ CatalogScanned
    /\ call.language = LangEnChunker
    /\ TaggerData(LangEnChunker) \in fs.lib
    /\ outcome = Raised("LookupError", LanguageMessage)

(***************************************************************************)
(* C9                                                                      *)
(***************************************************************************)
\* C9: parse_to_tree never returns a tree for a stream that holds a record
\* of an arity other than 1 and 3.
C9_UnexpectedArityRejected ==
    (ParseToTreeRan /\ call.proc.returncode = 0
        /\ \E i \in 1..Len(Stream) : Len(Stream[i]) \notin {1, 3})
        => ~ReturnedTree

(***************************************************************************)
(* C10                                                                     *)
(***************************************************************************)
\* C10: every tree parse_to_tree returns comes from a stream in which each
\* sentence's markers are balanced and label-matched on their own.
C10_ReturnedTreeIsWellNested ==
    (ParseToTreeRan /\ ReturnedTree) => Nested(Stream, <<>>, TRUE)

(***************************************************************************)
(* C11                                                                     *)
(***************************************************************************)
\* what one record emits into the in-progress buffer
Emitted(rec) ==
    IF Len(rec) = 1 THEN MarkerText(rec[1])
    ELSE IF Len(rec) = 3 THEN LeafText(rec)
    ELSE <<>>

\* the completed sentences when every non-empty buffer left after the last
\* record is wrapped: done and buf are the list and the buffer before the
\* record at i
RECURSIVE FlushedSentences(_, _, _, _)
FlushedSentences(recs, i, done, buf) ==
    IF i > Len(recs)
    THEN IF buf # <<>> THEN Append(done, WrapS(buf)) ELSE done
    ELSE LET buf1 == buf \o Emitted(recs[i])
         IN  IF IsTerminal(recs[i])
             THEN FlushedSentences(recs, i + 1, Append(done, WrapS(buf1)), <<>>)
             ELSE FlushedSentences(recs, i + 1, done, buf1)

\* C11: after the last record a non-empty in-progress buffer is wrapped as
\* a final S sentence and appended after the earlier completed sentences,
\* and nothing is appended when the last record was a sentence-terminal
\* token: the completed-sentence list of parse_to_tree holds every emitted
\* marker and token.
C11_TrailingBufferFlushed ==
    (ParseToTreeRan /\ call.proc.returncode = 0)
        => Resar(Stream) = FlushedSentences(Stream, 1, <<>>, <<>>)

(***************************************************************************)
(* C12                                                                     *)
(***************************************************************************)
IndexErrorRaised == Raised("IndexError", "list index out of range")

\* C12: whenever parse succeeds, parse_to_tree reaches result selection
\* with at least one completed sentence, so the call never fails indexing
\* an empty completed-sentence list.
C12_ResultSelectionHasSentence ==
    (ParseToTreeRan /\ call.proc.returncode = 0)
        => (Len(Resar(Stream)) >= 1 /\ outcome # IndexErrorRaised)

\* the empty response
EmptyResponse ==
    /\ ParseToTreeRan
    /\ call.proc.returncode = 0
    /\ call.proc.stdout = <<>>

\* C12, for the empty response alone
C12_EmptyResponseHasSentence ==
    EmptyResponse => (Len(Resar(Stream)) >= 1 /\ outcome # IndexErrorRaised)

\* the completed-sentence list is empty exactly for the streams that emit at
\* most one character in all and hold no sentence-terminal token
RECURSIVE EmittedText(_)
EmittedText(recs) ==
    IF recs = <<>> THEN <<>> ELSE Emitted(Head(recs)) \o EmittedText(Tail(recs))

C12_EmptyListCases ==
    (ParseToTreeRan /\ call.proc.returncode = 0)
        => (outcome = IndexErrorRaised
                <=> (/\ Len(EmittedText(Stream)) <= 1
                     /\ \A i \in 1..Len(Stream) : ~IsTerminal(Stream[i])))

====
